---- MODULE Spec2Model ----
(***************************************************************************)
(* Model of js/sslider.js: the value interpolation utility ip.js (lines    *)
(* 1-218) and the image slider sslider.js (lines 219-517).                 *)
(*                                                                         *)
(* Time.  The code only ever uses differences of timestamps, so the model  *)
(* keeps every stored timestamp and every timer delay relative to the      *)
(* present: the clock reads getTs = 0 and Advance moves the time origin by *)
(* one tick period.  A timer is due when its delay has run down to 0;      *)
(* while a timer is due, time does not advance and no call or input event  *)
(* is taken (a call or event between two clock readings runs after the     *)
(* callbacks that were due at the earlier one).                            *)
(*                                                                         *)
(* Nullable fields are sets: None for null/undefined, Some(x) otherwise.   *)
(***************************************************************************)
EXTENDS Integers, Sequences, FiniteSets, Bags, TLC

\* ---------------------------------------------------------------- bounds
MaxTimers == 3      \* timers armed at the same time (setTimeout and setInterval)
MaxLegs == 4        \* legs of one interpolator run that are followed
HorizonTicks == 6   \* tick periods after which a timestamp is just "long ago"

\* ------------------------------------------------- inputs of the instance
FrameCounts == {1, 2, 3, 5}   \* images.length
Widths == {2, 300}
Durations == {32}
Intervals == {48}
KeyCodes == {13, 37, 39}

VARIABLES
  sslider,             \* the Sslider instance: options, maxIdx, _state, legend
  timeouts,            \* bag of the pending setTimeout timers of the page
  ips,                 \* interpolator instances whose interval timer is armed
  objects,             \* registry: ids of the containers that are registered
  useJsInterpolation,  \* capability-selected transition strategy
  hist,                \* what the caller did so far: "fresh" (nothing), "auto1"
                       \* (auto-cycling enabled once, nothing else), "other"
  handle,              \* an interpolator instance the page created by ip.create
  out,                 \* the callbacks the last step of that instance invoked
  run                  \* what happened to that instance since ip.create

ipVars == <<handle, out, run>>

vars == <<sslider, timeouts, ips, objects, useJsInterpolation, hist, handle, out, run>>

None == {}
Some(x) == {x}
The(s) == CHOOSE x \in s : TRUE
Max(a, b) == IF a > b THEN a ELSE b

\* ============================================================== ip.js ===
TickPeriod == 16

getTs == 0

\* options hash after the merge with defaultOptions; each/update/end say
\* whether a callback is configured
ipDefaultOptions ==
  [duration |-> 1000,
   repeat |-> [type |-> "boolean", bool |-> FALSE, num |-> 0],
   roundtrip |-> FALSE, each |-> FALSE, update |-> FALSE, end |-> FALSE]

\* default easing (-cos(pos*PI)/2)+0.5 in millionths, pos given in twelfths
easing(pos12) ==
  <<0, 17037, 66987, 146447, 250000, 370590, 500000,
    629410, 750000, 853553, 933013, 982963, 1000000>>[pos12 + 1]

\* faulty variant: the phase is switched, the endpoints are not swapped
switchPhase_keepsEndpoints(instance) ==
  [instance EXCEPT !.phase = IF instance.phase # Some(2) THEN Some(2) ELSE Some(1)]

switchPhase(instance) ==
  [instance EXCEPT !.to = instance.from, !.from = instance.to,
                   !.phase = IF instance.phase # Some(2) THEN Some(2) ELSE Some(1)]

\* faulty variant: repeat N makes N trips
wantedTripsOf_noFirstTrip(repeatOption) ==
  IF repeatOption.type = "boolean"
    THEN (IF repeatOption.bool THEN -1 ELSE 1)
    ELSE IF repeatOption.type = "number" /\ repeatOption.num > 0
      THEN repeatOption.num
      ELSE 1

wantedTripsOf(repeatOption) ==
  IF repeatOption.type = "boolean"
    THEN (IF repeatOption.bool THEN -1 ELSE 1)
    ELSE IF repeatOption.type = "number" /\ repeatOption.num > 0
      THEN repeatOption.num + 1
      ELSE 1

\* The time of a timestamp field in arithmetic and comparisons: null counts
\* as 0, the epoch, which is long ago.
Horizon == HorizonTicks * TickPeriod

num(field) == IF field = None THEN -Horizon ELSE The(field)

reset(instance) ==
  [instance EXCEPT !._start = None, !.end = None, !.curr = None,
                   !.interval = None, !.paused = FALSE, !.running = FALSE,
                   !._firstStart = None, !.tripNr = 0,
                   !.wantedTrips = wantedTripsOf(instance.options.repeat)]

Ip(from, to, options) ==
  reset([options |-> options, from |-> from, to |-> to, phase |-> None,
         _start |-> None, end |-> None, curr |-> None, interval |-> None,
         paused |-> FALSE, running |-> FALSE, _firstStart |-> None,
         tripNr |-> 0, wantedTrips |-> 1, _ts |-> None, leaked |-> <<>>])

\* instance.interval holds the armed interval timer: the delay to its next
\* firing; a timer that is still armed when the field is overwritten stays
\* armed with nothing holding its id (leaked, in the order of arming)
doStart(instance) ==
  [instance EXCEPT !.leaked = IF instance.interval = None THEN @
                              ELSE Append(@, The(instance.interval)),
                   !.interval = Some(TickPeriod), !.running = TRUE]

\* faulty variant: start() does not look at running
start_unguarded(instance, ts) ==
  doStart([instance EXCEPT
             !._firstStart = IF @ = None THEN Some(ts) ELSE @,
             !._start = Some(ts),
             !.end = Some(ts + instance.options.duration)])

start(instance, ts) ==
  IF instance.running THEN instance
  ELSE doStart([instance EXCEPT
                  !._firstStart = IF @ = None THEN Some(ts) ELSE @,
                  !._start = Some(ts),
                  !.end = Some(ts + instance.options.duration)])

\* what start() returns: the instance, from either return statement
startReturns(instance) ==
  IF instance.running THEN "instance" ELSE "instance"

roundtrip(instance, ts) == start(switchPhase(instance), ts)

checkPaused(instance) == instance.paused

\* The value that is not a number stands apart from every value of a run; it
\* differs from every value, itself included.
NaN == -1000

\* faulty variant: update is invoked with every value
checkUpdate_everyValue(instance, value) ==
  [instance |-> [instance EXCEPT !.curr = Some(value)], update |-> Some(value)]

\* result: the instance and whether update(value) is invoked
checkUpdate(instance, value) ==
  IF value = NaN \/ instance.curr # Some(value)
    THEN [instance |-> [instance EXCEPT !.curr = Some(value)], update |-> Some(value)]
    ELSE [instance |-> instance, update |-> None]

\* the argument end is invoked with, if it is configured
checkEnd(instance) ==
  IF instance.options.end THEN Some(instance._firstStart) ELSE None

\* faulty variant: the OUTBOUND leg of a roundtrip consumes a trip as well
checkTripFinished_outboundCounts(instance, now) ==
  IF now > num(instance.end)
    THEN LET i1 == [instance EXCEPT !.interval = None, !.running = FALSE]
             i2 == [i1 EXCEPT !.tripNr = @ + 1]
         IN  IF i1.options.roundtrip /\ i1.phase # Some(2)
               THEN [instance |-> roundtrip(i2, now), end |-> None]
             ELSE IF i1.wantedTrips = -1
               THEN [instance |-> start(IF i1.options.roundtrip THEN switchPhase(i1) ELSE i1, now),
                     end |-> None]
             ELSE IF i2.tripNr < i2.wantedTrips
               THEN [instance |-> start(IF i2.options.roundtrip THEN switchPhase(i2) ELSE i2, now),
                     end |-> None]
             ELSE [instance |-> i2, end |-> checkEnd(i2)]
    ELSE [instance |-> instance, end |-> None]

\* result: the instance and the invocation of end, if any
checkTripFinished(instance, now) ==
  IF now > num(instance.end)
    THEN LET i1 == [instance EXCEPT !.interval = None, !.running = FALSE]
             i2 == [i1 EXCEPT !.tripNr = @ + 1]
         IN  IF i1.options.roundtrip /\ i1.phase # Some(2)
               THEN [instance |-> roundtrip(i1, now), end |-> None]
             ELSE IF i1.wantedTrips = -1
               THEN [instance |-> start(IF i1.options.roundtrip THEN switchPhase(i1) ELSE i1, now),
                     end |-> None]
             ELSE IF i2.tripNr < i2.wantedTrips
               THEN [instance |-> start(IF i2.options.roundtrip THEN switchPhase(i2) ELSE i2, now),
                     end |-> None]
             ELSE [instance |-> i2, end |-> checkEnd(i2)]
    ELSE [instance |-> instance, end |-> None]

\* pos in twelfths; 0/0 is NaN
workPos(instance, now) ==
  IF now > num(instance.end) THEN 12
  ELSE IF instance.options.duration = 0 /\ now = The(instance._start) THEN NaN
  ELSE ((now - The(instance._start)) * 12) \div instance.options.duration

\* easing(NaN), the product, the sum and Math.floor of it are NaN
workValue(instance, now) ==
  IF workPos(instance, now) = NaN THEN NaN
  ELSE (instance.from * 1000000
          + (instance.to - instance.from) * easing(workPos(instance, now))) \div 1000000

\* one firing of the interval timer; result: the instance and the callbacks invoked
work(instance, now) ==
  IF checkPaused(instance)
    THEN [instance |-> [instance EXCEPT !.interval = None],
          each |-> None, update |-> None, end |-> None]
    ELSE LET value == workValue(instance, now)
             u == IF instance.options.update THEN checkUpdate(instance, value)
                  ELSE [instance |-> instance, update |-> None]
             f == checkTripFinished(u.instance, now)
         IN  [instance |-> f.instance,
              each |-> IF instance.options.each THEN Some(value) ELSE None,
              update |-> u.update, end |-> f.end]

pause(instance, ts) ==
  IF instance.paused THEN instance
  ELSE [instance EXCEPT !.paused = TRUE, !.running = FALSE,
                        !._ts = Some(ts - num(instance._start))]

\* faulty variant: resume() begins the leg anew
resume_legAnew(instance, ts) ==
  IF ~instance.paused THEN instance
  ELSE doStart([instance EXCEPT
                  !.paused = FALSE, !.running = TRUE,
                  !._start = Some(ts),
                  !.end = Some(ts + instance.options.duration),
                  !._ts = None])

resume(instance, ts) ==
  IF ~instance.paused THEN instance
  ELSE doStart([instance EXCEPT
                  !.paused = FALSE, !.running = TRUE,
                  !._start = Some(ts - The(instance._ts)),
                  !.end = Some(ts - The(instance._ts) + instance.options.duration),
                  !._ts = None])

\* result: the instance and the invocation of end, if any
stop(instance) ==
  IF ~instance.running THEN [instance |-> instance, end |-> None]
  ELSE [instance |-> reset([instance EXCEPT !.interval = None]),
        end |-> checkEnd(instance)]

\* ========================================================== sslider.js ===
\* the mutable objects the slider's functions work on, and the value the
\* function returns
World == [sslider |-> sslider, timeouts |-> timeouts, ips |-> ips, ret |-> "undefined"]

\* A pending timer is its callback (fn, with the nextIdx its closure
\* captured), the delay left, and held: whether _state.timer holds its id.
\* Ids are fresh, so _state.timer names at most one pending timer and is
\* modelled by that flag; timers that agree in all of this are copies.
RECURSIVE bagSum(_, _)
bagSum(B, S) ==
  IF S = {} THEN 0
  ELSE LET x == CHOOSE y \in S : TRUE IN B[x] + bagSum(B, S \ {x})

unhold(t) == [t EXCEPT !.held = FALSE]

\* _state.timer is overwritten: no pending timer is held any more
unholdAll(B) ==
  [y \in {unhold(x) : x \in DOMAIN B}
     |-> bagSum(B, {x \in DOMAIN B : unhold(x) = y})]

\* setTimeout whose id is discarded
setTimeout(w, fn, nextIdx, delay) ==
  [w EXCEPT !.timeouts = @ (+) SetToBag({[fn |-> fn, nextIdx |-> nextIdx,
                                          delay |-> delay, held |-> FALSE]})]

\* _state.timer = setTimeout(...)
setTimeoutHeld(w, fn, nextIdx, delay) ==
  [w EXCEPT !.timeouts = unholdAll(@)
                           (+) SetToBag({[fn |-> fn, nextIdx |-> nextIdx,
                                          delay |-> delay, held |-> TRUE]})]

\* clearTimeout(_state.timer)
clearTimeout(w) ==
  [w EXCEPT !.timeouts = [t \in {x \in DOMAIN @ : ~x.held} |-> @[t]]]

fired(w, t) == [w EXCEPT !.timeouts = @ (-) SetToBag({t})]

setLeftPos(w, val) == [w EXCEPT !.sslider._state.left = val]

animate(w, offset) ==
  IF useJsInterpolation
    THEN [w EXCEPT !.ips = Append(@,
            start(Ip(w.sslider._state.left, offset,
                     [ipDefaultOptions EXCEPT !.duration = w.sslider.options.duration,
                                              !.update = TRUE]),
                  getTs))]
    ELSE setLeftPos(w, offset)

\* faulty variants of the range test: no upper limit; an upper limit that is
\* one too high
outOfRange_noUpperLimit(s, idx) == idx < 0

outOfRange_offByOne(s, idx) == idx < 0 \/ idx > s.maxIdx + 1

outOfRange(s, idx) == idx < 0 \/ idx > s.maxIdx

\* faulty variant: the marker of the frame shown before is not cleared
markLegend_keepsOld(legend, idx) ==
  [idx2 \in 1..Len(legend) |-> IF idx2 - 1 = idx THEN "selected" ELSE legend[idx2]]

markLegend(legend, idx) ==
  [idx2 \in 1..Len(legend) |-> IF idx2 - 1 = idx THEN "selected" ELSE ""]

showIdx(w, idx) ==
  IF outOfRange(w.sslider, idx) THEN [w EXCEPT !.ret = "undefined"]
  ELSE LET offset == -1 * idx * w.sslider.options.width
           w1 == animate(w, offset)
       IN  [w1 EXCEPT !.sslider._state.currentIdx = idx,
                      !.sslider.legend = IF w.sslider.options.legend
                                           THEN markLegend(@, idx) ELSE @,
                      !.ret = "sslider"]

\* faulty variant: prev() at the first frame wraps around to the last one
prevIdx_wraps(s) ==
  IF s._state.currentIdx = 0 THEN s.maxIdx ELSE s._state.currentIdx - 1

prevIdx(s) == s._state.currentIdx - 1

nextIdx(s) == s._state.currentIdx + 1

prev(w) == showIdx(w, prevIdx(w.sslider))

next(w) == showIdx(w, nextIdx(w.sslider))

\* faulty variant: the direction is turned at the last frame only
autoMoveFlips_lastOnly(s, n) == n > s.maxIdx

autoMoveFlips(s, n) == n > s.maxIdx \/ n < 0

autoMove(w) ==
  LET s == w.sslider
      n0 == s._state.currentIdx + s._state.autoDir
      dir == IF autoMoveFlips(s, n0) THEN -1 * s._state.autoDir ELSE s._state.autoDir
      n == IF autoMoveFlips(s, n0) THEN s._state.currentIdx + dir ELSE n0
      w1 == setTimeoutHeld(w, "autoMove", n, s.options.interval)
  IN  [w1 EXCEPT !.sslider._state.autoDir = dir]

auto(w, a) ==
  LET w1 == [w EXCEPT !.sslider.options.auto = a]
      w2 == IF a THEN autoMove(w1) ELSE clearTimeout(w1)
  IN  [w2 EXCEPT !.ret = "sslider"]

\* result: the world and whether the caller has to bail out
\* faulty variant: the lock is set and armed but never looked at
preventRuthlessNavigation_neverBails(w) ==
  [w |-> [setTimeout(w, "navUnlock", 0, w.sslider.options.duration)
            EXCEPT !.sslider._state.userNavActive = TRUE],
   bail |-> FALSE]

preventRuthlessNavigation(w) ==
  IF w.sslider._state.userNavActive THEN [w |-> w, bail |-> TRUE]
  ELSE [w |-> [setTimeout(w, "navUnlock", 0, w.sslider.options.duration)
                 EXCEPT !.sslider._state.userNavActive = TRUE],
        bail |-> FALSE]

pauseAutoMoving(w) ==
  IF w.sslider.options.auto
    THEN LET w1 == [w EXCEPT !.sslider.options.auto = FALSE]
             w2 == clearTimeout(w1)
         IN  setTimeout(w2, "resumeAuto", 0, w.sslider.options.duration * 2)
    ELSE w

keys(keyCode) == IF keyCode = 37 THEN "prev" ELSE IF keyCode = 39 THEN "next" ELSE ""

\* keyup listener; the focused element is inside the widget
\* faulty variant: the listener does not look the slider up in the registry
keyup_unregistered(w, keyCode) ==
  LET dir == keys(keyCode)
      p == preventRuthlessNavigation(w)
      w1 == pauseAutoMoving(p.w)
  IN  IF dir = "" THEN w
      ELSE IF p.bail THEN w
      ELSE IF dir = "prev" THEN prev(w1) ELSE next(w1)

keyup(w, keyCode) ==
  LET dir == keys(keyCode)
      p == preventRuthlessNavigation(w)
      w1 == pauseAutoMoving(p.w)
  IN  IF dir = "" THEN w
      ELSE IF objects = {} THEN w
      ELSE IF p.bail THEN w
      ELSE IF dir = "prev" THEN prev(w1) ELSE next(w1)

\* click listener; the target is the legend button with value idx
click(w, idx) ==
  LET p == preventRuthlessNavigation(w)
      w1 == pauseAutoMoving(p.w)
  IN  IF objects = {} THEN w
      ELSE IF ~w.sslider.options.legendActive THEN w
      ELSE IF p.bail THEN w
      ELSE showIdx(w1, idx)

\* state of a new Sslider(images, options), before showIdx(0) and auto()
Sslider0(nImages, options) ==
  [options |-> options,
   maxIdx |-> nImages - 1,
   _state |-> [currentIdx |-> 0, left |-> 0, autoDir |-> 1,
               userNavActive |-> FALSE],
   legend |-> IF options.legend THEN [i \in 1..nImages |-> ""] ELSE <<>>]

Sslider(nImages, options) ==
  LET w0 == [sslider |-> Sslider0(nImages, options), timeouts |-> EmptyBag,
             ips |-> <<>>, ret |-> "undefined"]
      w1 == showIdx(w0, 0)
  IN  IF options.auto THEN auto(w1, TRUE) ELSE w1

\* registry
put(objs) == objs \cup {"sslider"}

remove(objs) == objs \ {"sslider"}

\* ------------------------------------------------------------ the machine
Options ==
  [width : Widths, userNav : BOOLEAN, auto : BOOLEAN, interval : Intervals,
   duration : Durations, legend : BOOLEAN, legendActive : BOOLEAN]

\* The sliders that are built: interpolated transitions (which pass through
\* every value between two offsets) with two images 2 wide, instant ones
\* with three images 300 wide, both with an active legend; and the instant
\* slider of a single image with an active, an inactive and no legend.
Built(js, n, o) ==
  /\ o.width = IF js THEN 2 ELSE 300
  /\ \/ o.legend /\ o.legendActive /\ n = IF js THEN 2 ELSE 3
     \/ ~js /\ n = 1 /\ (o.legendActive => o.legend)

\* the slider of the examples: five images 300 wide (and the slider of a
\* single image), instant transitions, driven by its API only
BuiltFive(js, n, o) ==
  /\ ~js /\ n \in {1, 5}
  /\ o.width = 300 /\ o.legend /\ o.legendActive /\ ~o.userNav

\* sslider.create(images, options) with n images has returned
Created(n, o) ==
  LET w == Sslider(n, o)
  IN  /\ sslider = w.sslider
      /\ timeouts = w.timeouts
      /\ ips = w.ips
      /\ objects = IF o.userNav THEN put({}) ELSE {}
      /\ hist = IF o.auto THEN "auto1" ELSE "fresh"

\* the calls the model leaves out are those that exceed its bounds
Commit(w) ==
  /\ Len(w.ips) + BagCardinality(w.timeouts) <= MaxTimers
  /\ sslider' = w.sslider
  /\ timeouts' = w.timeouts
  /\ ips' = w.ips
  /\ UNCHANGED <<useJsInterpolation, ipVars>>


\* no callback was invoked
NoCalls == [each |-> None, update |-> None, end |-> None]

\* What is recorded of an instance: the endpoints it was created with,
\* whether start() was called, and, as long as the run is plain (start()
\* was called at most once while not running; pause(), resume() and stop()
\* never), the legs that finished, the invocations of end and of
\* update(to) (0, 1, or 2 for more), and the last value update received.
Recorded(from, to) ==
  [from |-> from, to |-> to, started |-> FALSE, plain |-> TRUE,
   legs |-> 0, ends |-> 0, updTo |-> 0, lastUpd |-> None]

\* the page creates no interpolator of its own
NoHandle ==
  /\ handle = None
  /\ out = NoCalls
  /\ run = [Recorded(0, 0) EXCEPT !.plain = FALSE]

Init ==
  /\ useJsInterpolation \in BOOLEAN
  /\ NoHandle
  /\ \E n \in FrameCounts, o \in Options :
       Built(useJsInterpolation, n, o) /\ Created(n, o)

InitFive ==
  /\ useJsInterpolation \in BOOLEAN
  /\ NoHandle
  /\ \E n \in FrameCounts, o \in Options :
       BuiltFive(useJsInterpolation, n, o) /\ Created(n, o)

IdxInputs == -1..5

timerDue ==
  \/ \E t \in DOMAIN timeouts : t.delay = 0
  \/ \E i \in 1..Len(ips) : ips[i].interval = Some(0)

API_showIdx(idx) ==
  /\ ~timerDue
  /\ Commit(showIdx(World, idx))
  /\ hist' = "other"
  /\ UNCHANGED objects

API_prev ==
  /\ ~timerDue
  /\ Commit(prev(World))
  /\ hist' = "other"
  /\ UNCHANGED objects

API_next ==
  /\ ~timerDue
  /\ Commit(next(World))
  /\ hist' = "other"
  /\ UNCHANGED objects

API_auto(a) ==
  /\ ~timerDue
  /\ Commit(auto(World, a))
  /\ hist' = IF a /\ hist = "fresh" THEN "auto1" ELSE "other"
  /\ UNCHANGED objects

\* the arguments userNav is called with: none, or a boolean
UserNavArgs == {<<>>, <<TRUE>>, <<FALSE>>}

\* enable = arguments.length==0 || !!enable
enableOf(args) == Len(args) = 0 \/ args[1]

API_userNav(args) ==
  /\ ~timerDue
  /\ objects' = IF enableOf(args) THEN put(objects) ELSE remove(objects)
  /\ UNCHANGED <<sslider, timeouts, ips, useJsInterpolation, hist, ipVars>>

KeyUp(keyCode) ==
  /\ ~timerDue
  /\ Commit(keyup(World, keyCode))
  /\ hist' = "other"
  /\ UNCHANGED objects

Click(idx) ==
  /\ ~timerDue
  /\ sslider.options.legend
  /\ idx \in 0..sslider.maxIdx
  /\ Commit(click(World, idx))
  /\ hist' = "other"
  /\ UNCHANGED objects

\* the callback armed by autoMove
AutoMoveTimer(t) ==
  /\ t.fn = "autoMove" /\ t.delay = 0
  /\ Commit(autoMove(showIdx(fired(World, t), t.nextIdx)))
  /\ UNCHANGED <<objects, hist>>

\* the callback armed by preventRuthlessNavigation
NavUnlockTimer(t) ==
  /\ t.fn = "navUnlock" /\ t.delay = 0
  /\ Commit([fired(World, t) EXCEPT !.sslider._state.userNavActive = FALSE])
  /\ UNCHANGED <<objects, hist>>

\* the callback armed by pauseAutoMoving
ResumeTimer(t) ==
  /\ t.fn = "resumeAuto" /\ t.delay = 0
  /\ Commit(auto(fired(World, t), TRUE))
  /\ UNCHANGED <<objects, hist>>

\* the interval armed by doStart fires for the instance at position i
\* (intervals of one period that are due together fire in the order they
\* were armed); an instance whose interval is cleared is referenced by
\* nothing any more
IpInterval(i) ==
  /\ i \in 1..Len(ips)
  /\ ips[i].interval = Some(0)
  /\ \A j \in 1..(i - 1) : ips[j].interval # Some(0)
  /\ LET r == work(ips[i], getTs)
         inst == IF r.instance.interval = None THEN r.instance
                 ELSE [r.instance EXCEPT !.interval = Some(TickPeriod)]
         w1 == IF r.update = None THEN World ELSE setLeftPos(World, The(r.update))
     IN  Commit(
           [w1 EXCEPT !.ips = IF inst.interval = None
                                THEN SubSeq(@, 1, i - 1) \o SubSeq(@, i + 1, Len(@))
                                ELSE [@ EXCEPT ![i] = inst]])
  /\ UNCHANGED <<objects, hist>>

shift(ts, d) == {x - d : x \in ts}

elapse(delay, d) == {Max(0, x - d) : x \in delay}

tick(t) == [t EXCEPT !.delay = Max(0, @ - TickPeriod)]

tickAll(B) ==
  [y \in {tick(x) : x \in DOMAIN B}
     |-> bagSum(B, {x \in DOMAIN B : tick(x) = y})]

\* time passes by one tick period while no timer is due
Advance ==
  /\ ~timerDue
  /\ timeouts' = tickAll(timeouts)
  /\ ips' = [i \in 1..Len(ips) |->
               [ips[i] EXCEPT !._start = shift(@, TickPeriod),
                              !.end = shift(@, TickPeriod),
                              !._firstStart = shift(@, TickPeriod),
                              !.interval = elapse(@, TickPeriod)]]
  /\ UNCHANGED <<sslider, objects, useJsInterpolation, hist, ipVars>>

\* the calls of the instance API, the auto-cycle timer and the clock
NextApi ==
  \/ \E idx \in IdxInputs : API_showIdx(idx)
  \/ API_prev
  \/ API_next
  \/ \E a \in BOOLEAN : API_auto(a)
  \/ \E t \in DOMAIN timeouts : AutoMoveTimer(t)
  \/ Advance

Next ==
  \/ NextApi
  \/ \E args \in UserNavArgs : API_userNav(args)
  \/ \E keyCode \in KeyCodes : KeyUp(keyCode)
  \/ \E idx \in IdxInputs : Click(idx)
  \/ \E t \in DOMAIN timeouts : NavUnlockTimer(t)
  \/ \E t \in DOMAIN timeouts : ResumeTimer(t)
  \/ \E i \in 1..MaxTimers : IpInterval(i)

Spec == Init /\ [][Next]_vars

SpecFive == InitFive /\ [][NextApi]_vars

\* ------------------------------------- the machine of one ip.js instance
\* ip.create(from, to, options) of the page: endpoints, repeat (false, true,
\* 1, 2), roundtrip, and all three callbacks
Endpoints == {<<0, 2>>, <<2, 0>>}

IpDurations == {32}

Repeats ==
  {[type |-> "boolean", bool |-> FALSE, num |-> 0],
   [type |-> "boolean", bool |-> TRUE, num |-> 0],
   [type |-> "number", bool |-> FALSE, num |-> 1],
   [type |-> "number", bool |-> FALSE, num |-> 2]}

IpOptions ==
  [duration : IpDurations, repeat : Repeats, roundtrip : BOOLEAN,
   each : {TRUE}, update : {TRUE}, end : {TRUE}]

\* a page with a slider at rest and one interpolator, created and not started
InitIp ==
  /\ useJsInterpolation = FALSE
  /\ \E o \in Options :
       /\ ~o.auto /\ ~o.userNav /\ ~o.legend /\ ~o.legendActive /\ o.width = 300
       /\ Created(1, o)
  /\ \E e \in Endpoints, o \in IpOptions :
       /\ handle = Some(Ip(e[1], e[2], o))
       /\ run = Recorded(e[1], e[2])
  /\ out = NoCalls

sliderVars == <<sslider, timeouts, ips, objects, useJsInterpolation, hist>>

\* the interval timers of an instance that are armed: the one whose id
\* instance.interval holds, and the leaked ones
armed(instance) ==
  Len(instance.leaked) + (IF instance.interval = None THEN 0 ELSE 1)

ipTimerDue ==
  \/ The(handle).interval = Some(0)
  \/ \E k \in 1..Len(The(handle).leaked) : The(handle).leaked[k] = 0

\* the run is not plain any more
meddled(r) == [Recorded(r.from, r.to) EXCEPT !.started = TRUE, !.plain = FALSE]

IP_start ==
  /\ handle # None /\ ~ipTimerDue
  /\ armed(start(The(handle), getTs)) <= MaxTimers
  /\ handle' = Some(start(The(handle), getTs))
  /\ out' = NoCalls
  /\ run' = IF run.plain /\ (~run.started \/ The(handle).running)
              THEN [run EXCEPT !.started = TRUE] ELSE meddled(run)
  /\ UNCHANGED sliderVars

IP_pause ==
  /\ handle # None /\ ~ipTimerDue
  /\ handle' = Some(pause(The(handle), getTs))
  /\ out' = NoCalls
  /\ run' = meddled(run)
  /\ UNCHANGED sliderVars

IP_resume ==
  /\ handle # None /\ ~ipTimerDue
  /\ armed(resume(The(handle), getTs)) <= MaxTimers
  /\ handle' = Some(resume(The(handle), getTs))
  /\ out' = NoCalls
  /\ run' = meddled(run)
  /\ UNCHANGED sliderVars

IP_stop ==
  /\ handle # None /\ ~ipTimerDue
  /\ handle' = Some(stop(The(handle)).instance)
  /\ out' = [NoCalls EXCEPT !.end = stop(The(handle)).end]
  /\ run' = meddled(run)
  /\ UNCHANGED sliderVars

\* the interval timer that fires next: the leaked ones in the order they
\* were armed, then the one instance.interval holds; 0 stands for that one
dueTimer(instance) ==
  IF \E k \in 1..Len(instance.leaked) : instance.leaked[k] = 0
    THEN CHOOSE k \in 1..Len(instance.leaked) :
           /\ instance.leaked[k] = 0
           /\ \A j \in 1..(k - 1) : instance.leaked[j] # 0
    ELSE 0

bump2(n) == IF n >= 2 THEN 2 ELSE n + 1

\* a leg finishes: work runs with now > end on an instance that is not paused
finishes(instance, now) == ~checkPaused(instance) /\ now > num(instance.end)

\* the record of a plain run after a firing with result r
recorded(r0, instance, r) ==
  [r0 EXCEPT !.legs = IF finishes(instance, getTs) THEN @ + 1 ELSE @,
             !.ends = IF r.end # None THEN bump2(@) ELSE @,
             !.updTo = IF r.update = Some(r0.to) THEN bump2(@) ELSE @,
             !.lastUpd = IF r.update # None THEN r.update ELSE @]

\* an interval timer of the instance fires: it is armed again for the next
\* period and calls work(instance)
IP_Interval ==
  /\ handle # None /\ ipTimerDue
  /\ LET instance == The(handle)
         k == dueTimer(instance)
         again == IF k = 0 THEN [instance EXCEPT !.interval = Some(TickPeriod)]
                  ELSE [instance EXCEPT !.leaked[k] = TickPeriod]
         r == work(again, getTs)
     IN  /\ (run.plain /\ finishes(instance, getTs)) => run.legs < MaxLegs
         /\ r.instance.tripNr <= MaxLegs
         /\ handle' = Some(r.instance)
         /\ out' = [each |-> r.each, update |-> r.update, end |-> r.end]
         /\ run' = IF run.plain THEN recorded(run, instance, r) ELSE run
  /\ UNCHANGED sliderVars

\* a timestamp one tick period later: it lies one period further back
age(ts) == {Max(x - TickPeriod, -Horizon) : x \in ts}

\* time passes by one tick period while no timer of the instance is due
AdvanceIp ==
  /\ handle # None /\ ~ipTimerDue
  /\ handle' = Some([The(handle) EXCEPT
                       !._start = age(@), !.end = age(@), !._firstStart = age(@),
                       !.interval = elapse(@, TickPeriod),
                       !.leaked = [k \in 1..Len(@) |-> Max(0, @[k] - TickPeriod)]])
  /\ out' = NoCalls
  /\ UNCHANGED <<run, sliderVars>>

NextIp ==
  \/ IP_start
  \/ IP_pause
  \/ IP_resume
  \/ IP_stop
  \/ IP_Interval
  \/ AdvanceIp

SpecIp == InitIp /\ [][NextIp]_vars

\* --------------------------------------------- stop() inside a callback
\* the callbacks of a tick that may call instance.stop()
Callbacks == {"each", "update"}

\* work(instance) when the callback `where` calls instance.stop() as it is
\* invoked; result: the instance, the callbacks invoked, the argument of the
\* last invocation of end and the number of invocations of end
workStopping(instance, now, where) ==
  IF checkPaused(instance)
    THEN [instance |-> [instance EXCEPT !.interval = None],
          each |-> None, update |-> None, end |-> None, endCalls |-> 0]
    ELSE LET value == workValue(instance, now)
             idle(i) == [instance |-> i, end |-> None]
             s1 == IF where = "each" /\ instance.options.each
                     THEN stop(instance) ELSE idle(instance)
             u == IF s1.instance.options.update THEN checkUpdate(s1.instance, value)
                  ELSE [instance |-> s1.instance, update |-> None]
             s2 == IF where = "update" /\ u.update # None
                     THEN stop(u.instance) ELSE idle(u.instance)
             f == checkTripFinished(s2.instance, now)
             count(e) == IF e = None THEN 0 ELSE 1
         IN  [instance |-> f.instance,
              each |-> IF instance.options.each THEN Some(value) ELSE None,
              update |-> u.update,
              end |-> IF f.end # None THEN f.end
                      ELSE IF s2.end # None THEN s2.end ELSE s1.end,
              endCalls |-> count(s1.end) + count(s2.end) + count(f.end)]

\* an interval timer of the instance fires: it is armed again for the next
\* period and calls work(instance), whose callback `where` calls stop()
TickStops(where) ==
  /\ handle # None /\ ipTimerDue
  /\ LET instance == The(handle)
         k == dueTimer(instance)
         again == IF k = 0 THEN [instance EXCEPT !.interval = Some(TickPeriod)]
                  ELSE [instance EXCEPT !.leaked[k] = TickPeriod]
         r == workStopping(again, getTs, where)
     IN  /\ r.instance.tripNr <= MaxLegs
         /\ handle' = Some(r.instance)
         /\ out' = [each |-> r.each, update |-> r.update, end |-> r.end]
         /\ run' = meddled(run)
  /\ UNCHANGED sliderVars

NextStop ==
  \/ IP_start
  \/ IP_Interval
  \/ AdvanceIp
  \/ \E where \in Callbacks : TickStops(where)

SpecStop == InitIp /\ [][NextStop]_vars

\* ------------------------------------------- work at an arbitrary time
\* The interval's callback runs when the browser gets round to it and reads
\* a clock of limited resolution: a tick may read the time start() read.
TickDurations == {-16, 0, 32}

TickOptions ==
  [duration : TickDurations, repeat : Repeats, roundtrip : BOOLEAN,
   each : {TRUE}, update : {TRUE}, end : {TRUE}]

\* a page with a slider at rest and one interpolator that was just started
InitTick ==
  /\ useJsInterpolation = FALSE
  /\ \E o \in Options :
       /\ ~o.auto /\ ~o.userNav /\ ~o.legend /\ ~o.legendActive /\ o.width = 300
       /\ Created(1, o)
  /\ \E e \in Endpoints, o \in TickOptions :
       /\ handle = Some(start(Ip(e[1], e[2], o), getTs))
       /\ run = [Recorded(e[1], e[2]) EXCEPT !.started = TRUE]
  /\ out = NoCalls

\* the interval's callback runs: work(instance) at the time the clock shows
WorkNow ==
  /\ handle # None /\ The(handle).interval # None
  /\ LET r == work(The(handle), getTs)
     IN  /\ r.instance.tripNr <= MaxLegs
         /\ handle' = Some(r.instance)
         /\ out' = [each |-> r.each, update |-> r.update, end |-> r.end]
  /\ UNCHANGED <<run, sliderVars>>

\* the clock moves on by one tick period
ClockMoves ==
  /\ handle # None
  /\ handle' = Some([The(handle) EXCEPT
                       !._start = age(@), !.end = age(@), !._firstStart = age(@)])
  /\ out' = NoCalls
  /\ UNCHANGED <<run, sliderVars>>

NextTick ==
  \/ WorkNow
  \/ ClockMoves

SpecTick == InitTick /\ [][NextTick]_vars

\* ============================================================= claims ===
currentIdx == sslider._state.currentIdx

left == sslider._state.left

autoDir == sslider._state.autoDir

userNavActive == sslider._state.userNavActive

maxIdx == sslider.maxIdx

inRange(idx) == 0 <= idx /\ idx <= maxIdx

pending(fn) == {t \in DOMAIN timeouts : t.fn = fn}

pendingAfter(fn) == {t \in DOMAIN timeouts' : t.fn = fn}

\* the legend markers that carry the class "selected"
selectedMarkers(s) == {i \in 0..(Len(s.legend) - 1) : s.legend[i + 1] = "selected"}

\* C1: in every reachable state currentIdx is an integer with
\* 0 <= currentIdx <= frameCount - 1, whatever calls, timer firings and input
\* events led there.
C1_CurrentIdxInRange ==
  currentIdx \in Int /\ 0 <= currentIdx /\ currentIdx <= maxIdx

\* the last frame of a slider of several frames is shown after navigation,
\* with the navigation lock set and an auto-cycle timer armed
C1_Witness ==
  /\ maxIdx >= 1 /\ currentIdx = maxIdx /\ hist = "other"
  /\ userNavActive /\ pending("autoMove") # {}

\* C2: a call showIdx(idx) with idx < 0 or idx > frameCount - 1 changes
\* nothing: the slider (currentIdx, offset, legend, autoDirection, lock), the
\* pending timers, the running transitions and the registry stay as they were.
C2_OutOfRangeChangesNothing ==
  [][\A idx \in {i \in IdxInputs : i < 0 \/ i > maxIdx} :
       API_showIdx(idx) => UNCHANGED <<sslider, timeouts, ips, objects>>]_vars

\* a state in which showIdx(maxIdx + 1) can be called and has something to
\* spoil: a frame other than the first is shown, the lock is set, an
\* auto-cycle timer is armed, and with the interpolated strategy a
\* transition is running
C2_Witness ==
  /\ ~timerDue /\ hist = "other"
  /\ currentIdx = maxIdx /\ maxIdx >= 1
  /\ userNavActive /\ pending("autoMove") # {}
  /\ useJsInterpolation /\ ips # <<>>

\* C3: a call showIdx(idx) with 0 <= idx <= frameCount - 1 sets currentIdx to
\* idx, starts a transition to the offset -idx * width (a new interpolator
\* run from the current offset with the interpolated strategy, the offset
\* itself with the instant one) and, with a legend, leaves exactly marker idx
\* selected; and in every reachable state of a slider with a legend the
\* selected marker is the one at currentIdx.
C3_ShowIdxStep ==
  \A idx \in 0..maxIdx :
    API_showIdx(idx) =>
      /\ currentIdx' = idx
      /\ sslider.options.legend => selectedMarkers(sslider') = {idx}
      /\ IF useJsInterpolation
           THEN /\ Len(ips') = Len(ips) + 1
                /\ ips'[Len(ips')].from = left
                /\ ips'[Len(ips')].to = -(idx * sslider.options.width)
                /\ ips'[Len(ips')].running
                /\ left' = left
           ELSE left' = -(idx * sslider.options.width) /\ ips' = ips

C3_ShowIdx ==
  /\ [](sslider.options.legend => selectedMarkers(sslider) = {currentIdx})
  /\ [][C3_ShowIdxStep]_vars

\* with a legend, the second frame is shown after a navigation and a
\* transition to its offset is running or done
C3_Witness ==
  /\ sslider.options.legend /\ hist = "other" /\ currentIdx = 1
  /\ selectedMarkers(sslider) = {1}
  /\ IF useJsInterpolation
       THEN \E i \in 1..Len(ips) : ips[i].to = -sslider.options.width
       ELSE left = -sslider.options.width

\* C5 (as claimed): whenever no transition is in progress, the offset is
\* -currentIdx * width.
C5_OffsetAtRest ==
  ips = <<>> => left = -(currentIdx * sslider.options.width)

\* C6 (as claimed): in every reachable state showIdx(idx) for every idx,
\* prev() and next() return the slider instance.
C6_Chainable ==
  /\ \A idx \in IdxInputs : showIdx(World, idx).ret = "sslider"
  /\ prev(World).ret = "sslider"
  /\ next(World).ret = "sslider"

\* what the slider's objects are after showIdx(idx) in the present state
shown(idx) ==
  LET w == showIdx(World, idx)
  IN  /\ objects' = objects
      /\ sslider' = w.sslider
      /\ timeouts' = w.timeouts
      /\ ips' = w.ips

\* C4: prev() has exactly the effect of showIdx(currentIdx - 1) and next()
\* that of showIdx(currentIdx + 1): a step to the neighbouring frame and its
\* offset, and no change at all from prev() at index 0 and next() at the
\* last index; with 5 images 300 wide showIdx(3) ends at offset -900.
C4_PrevNextStep ==
  /\ API_prev =>
       /\ shown(currentIdx - 1)
       /\ currentIdx' = IF currentIdx = 0 THEN 0 ELSE currentIdx - 1
       /\ currentIdx = 0 => UNCHANGED <<sslider, timeouts, ips, objects>>
  /\ API_next =>
       /\ shown(currentIdx + 1)
       /\ currentIdx' = IF currentIdx = maxIdx THEN maxIdx ELSE currentIdx + 1
       /\ currentIdx = maxIdx => UNCHANGED <<sslider, timeouts, ips, objects>>
  /\ (API_prev \/ API_next) /\ ~useJsInterpolation
       => left' = -(currentIdx' * sslider.options.width)
  /\ (maxIdx = 4 /\ sslider.options.width = 300 /\ API_showIdx(3))
       => left' = -900

C4_PrevNext == [][C4_PrevNextStep]_vars

\* five images 300 wide, the last one shown at offset -1200 after navigation
C4_Witness ==
  /\ maxIdx = 4 /\ sslider.options.width = 300 /\ hist = "other"
  /\ currentIdx = 4 /\ left = -1200 /\ ~timerDue

\* one firing of the auto-cycle timer while auto-cycling was enabled once
\* and nothing else was called
autoStep == hist = "auto1" /\ \E t \in DOMAIN timeouts : AutoMoveTimer(t)

\* C7 (as claimed): with auto-cycling enabled once and no other navigation,
\* every timer firing moves currentIdx by exactly one step in autoDirection,
\* and autoDirection stays +1 or -1 and flips exactly when the next step
\* would leave 0..frameCount-1.
C7_AutoCycle ==
  [][autoStep =>
       /\ currentIdx' = currentIdx + autoDir
       /\ autoDir' \in {1, -1}
       /\ autoDir' = IF inRange(currentIdx' + autoDir) THEN autoDir ELSE -autoDir]_vars

\* C7 (amended): the same for a slider of at least two frames; with 5 frames
\* from index 0 in direction +1 this visits 1,2,3,4,3,2,1,0,1,...
C7_AutoCycleTwoFrames ==
  [][(autoStep /\ maxIdx >= 1) =>
       /\ currentIdx' = currentIdx + autoDir
       /\ autoDir' \in {1, -1}
       /\ autoDir' = IF inRange(currentIdx' + autoDir) THEN autoDir ELSE -autoDir]_vars

\* five frames, auto-cycling alone: frame 3 is shown on the way back from 4
C7_Witness ==
  /\ hist = "auto1" /\ maxIdx = 4 /\ currentIdx = 3 /\ autoDir = -1
  /\ \E t \in pending("autoMove") : t.nextIdx = 2

\* C8 (as claimed): when auto(false) returns, no timer is left that executes
\* an auto-cycle step or re-enables auto-cycling.
C8_AutoOffCancels ==
  [][API_auto(FALSE) =>
       pendingAfter("autoMove") \cup pendingAfter("resumeAuto") = {}]_vars

\* a navigation request of the user reaches the slider: an arrow key, or a
\* click on a button of an active legend, while the slider is registered
userRequest ==
  /\ objects # {}
  /\ \/ \E keyCode \in {37, 39} : KeyUp(keyCode)
     \/ sslider.options.legendActive /\ \E idx \in IdxInputs : Click(idx)

lockTimers == [t \in pending("navUnlock") |-> timeouts[t]]

\* how a request to show frame target is treated
debounced(target) ==
  IF userNavActive
    THEN UNCHANGED <<sslider, timeouts, ips, objects>>
    ELSE /\ userNavActive'
         /\ currentIdx' = target
         /\ \E t \in pendingAfter("navUnlock") : t.delay = sslider.options.duration

\* C9: a navigation request that arrives while the lock is clear is honoured
\* at once and sets the lock; one that arrives while the lock is set changes
\* nothing (currentIdx, offset, auto-cycling, the pending timers); the lock
\* is cleared by the one timer that is armed with it, duration ms after it
\* was set.
C9_LockStep ==
  /\ objects # {} =>
       /\ KeyUp(37) => debounced(IF currentIdx = 0 THEN 0 ELSE currentIdx - 1)
       /\ KeyUp(39) => debounced(IF currentIdx = maxIdx THEN maxIdx ELSE currentIdx + 1)
       /\ sslider.options.legendActive =>
            \A idx \in 0..maxIdx : Click(idx) => debounced(idx)
  /\ (userNavActive /\ ~userNavActive') =>
       \E t \in pending("navUnlock") : t.delay = 0 /\ NavUnlockTimer(t)
  /\ (userNavActive /\ userNavActive') =>
       \A t \in pending("navUnlock"), u \in pendingAfter("navUnlock") :
         u.delay = t.delay \/ u.delay = t.delay - TickPeriod

C9_NavLock ==
  /\ [](userNavActive <=> BagCardinality(lockTimers) = 1)
  /\ [](~userNavActive => pending("navUnlock") = {})
  /\ [][C9_LockStep]_vars

\* the lock is set and half of its time has passed: a request can arrive
C9_Witness ==
  /\ userNavActive /\ objects # {} /\ ~timerDue /\ currentIdx = 1
  /\ \E t \in pending("navUnlock") : t.delay = sslider.options.duration - TickPeriod

\* C10 (as claimed): a request that is honoured while auto-cycling is active
\* cancels the pending auto-cycle timer and arms the resumption 2 * duration
\* ms later; one that is honoured while it is not active starts nothing.
C10_PauseStep ==
  /\ (userRequest /\ ~userNavActive /\ sslider.options.auto) =>
       /\ pendingAfter("autoMove") = {}
       /\ ~sslider'.options.auto
       /\ \E t \in pendingAfter("resumeAuto") : t.delay = 2 * sslider.options.duration
  /\ (userRequest /\ ~userNavActive /\ ~sslider.options.auto) =>
       /\ ~sslider'.options.auto
       /\ [t \in pendingAfter("autoMove") |-> timeouts'[t]]
            = [t \in pending("autoMove") |-> timeouts[t]]
       /\ [t \in pendingAfter("resumeAuto") |-> timeouts'[t]]
            = [t \in pending("resumeAuto") |-> timeouts[t]]

C10_PauseAndResume == [][C10_PauseStep]_vars

\* ------------------------------------------------- claims about ip.js
\* the instance the page created
h == The(handle)

\* start() was called once on the instance and nothing else was: the run of
\* ip.create(from, to, {repeat: false, roundtrip: false}).start()
singleTrip ==
  /\ run.plain /\ run.started
  /\ h.options.repeat = [type |-> "boolean", bool |-> FALSE, num |-> 0]
  /\ ~h.options.roundtrip

\* time since the first start() (at most Horizon)
elapsed == -num(h._firstStart)

\* the run is over: update received `to` last and exactly once, end was
\* invoked exactly once, the handle is not running and no timer is armed
completed ==
  /\ run.lastUpd = Some(run.to) /\ run.updTo = 1 /\ run.ends = 1
  /\ ~h.running /\ armed(h) = 0

\* C11 (as claimed): once duration ms have elapsed since start(), the run of
\* a repeat=false, roundtrip=false interpolator that is never paused or
\* stopped is over: update received `to` last and exactly once, end was
\* invoked exactly once and the handle is not running.
C11_DoneAtDuration ==
  (singleTrip /\ elapsed >= h.options.duration /\ ~ipTimerDue) => completed

\* C11 (amended): the same once the first tick later than duration ms after
\* start() has fired (more than duration ms have elapsed and no tick is due);
\* and from then on no tick invokes a callback.
C11_DoneAfterDuration ==
  /\ []((singleTrip /\ elapsed > h.options.duration /\ ~ipTimerDue) => completed)
  /\ [][(singleTrip /\ run.ends >= 1 /\ run'.plain) => out' = NoCalls /\ run' = run]_vars

\* a run from 0 to 2 is over, two tick periods after its duration elapsed
C11_Witness ==
  /\ singleTrip /\ completed /\ run.from = 0 /\ run.to = 2
  /\ elapsed = h.options.duration + 2 * TickPeriod

\* start() was called once and nothing else, roundtrip is off and repeat is
\* false or a number
countedTrips ==
  /\ run.plain /\ run.started /\ ~h.options.roundtrip
  /\ h.options.repeat.type = "number" \/ ~h.options.repeat.bool

\* the trips the repeat option asks for: 1 + N for repeat N > 0, else 1
tripsAsked ==
  IF h.options.repeat.type = "number" /\ h.options.repeat.num > 0
    THEN h.options.repeat.num + 1 ELSE 1

\* C12: with repeat = N (a positive integer; repeat=false counts as N = 0)
\* and roundtrip=false, an interpolator that is started once and not paused
\* or stopped invokes end exactly once, and only when exactly N + 1 trips
\* have completed; every one of them ends with the value `to`.
C12_TripsThenEnd ==
  /\ [](countedTrips =>
          /\ run.legs <= tripsAsked /\ run.ends <= 1
          /\ run.ends = 1 <=> run.legs = tripsAsked)
  /\ [][(countedTrips /\ run'.plain /\ run'.legs = run.legs + 1) =>
          /\ out'.each = Some(run.to)
          /\ out'.end # None <=> run'.legs = tripsAsked]_vars

\* repeat: 2 has made its three trips and invoked end
C12_Witness ==
  /\ countedTrips /\ h.options.repeat.num = 2
  /\ run.legs = 3 /\ run.ends = 1 /\ ~h.running

\* start() was called once and nothing else, with repeat=true, roundtrip=true
endlessRoundtrip ==
  /\ run.plain /\ run.started /\ h.options.roundtrip
  /\ h.options.repeat = [type |-> "boolean", bool |-> TRUE, num |-> 0]

\* C13: with repeat=true and roundtrip=true the legs alternate between
\* OUTBOUND (from -> to) and RETURN (to -> from) for ever: the value emitted
\* when an odd-numbered leg ends is the original `to`, when an even-numbered
\* leg ends the original `from`, the next leg starts there in the other
\* phase, and end is never invoked.
C13_LegEnds ==
  (endlessRoundtrip /\ run'.plain /\ run'.legs = run.legs + 1) =>
    LET odd == run'.legs % 2 = 1
        reached == IF odd THEN run.to ELSE run.from
        other == IF odd THEN run.from ELSE run.to
    IN  /\ out'.each = Some(reached) /\ run'.lastUpd = Some(reached)
        /\ out'.end = None
        /\ h'.running /\ h'.from = reached /\ h'.to = other
        /\ h'.phase = IF odd THEN Some(2) ELSE Some(1)

C13_EndlessRoundtrip ==
  /\ [](endlessRoundtrip => run.ends = 0 /\ (run.legs >= 1 => h.running))
  /\ [][C13_LegEnds]_vars

\* the fourth leg of a run from 0 to 2 has ended, back at 0
C13_Witness ==
  /\ endlessRoundtrip /\ run.from = 0 /\ run.to = 2
  /\ run.legs = 4 /\ out.each = Some(0) /\ h.phase = Some(1)

\* C14: start() on a handle that is running is a no-op: no timer is armed,
\* every field of the instance (the timestamps, tripNr, phase, from and to
\* among them) stays as it is, and the call returns the handle.
C14_StartWhileRunning ==
  /\ []((handle # None /\ h.running) =>
          start(h, getTs) = h /\ startReturns(h) = "instance")
  /\ [][(IP_start /\ h.running) => handle' = handle]_vars

\* the return leg of a roundtrip is under way for one tick period
C14_Witness ==
  /\ handle # None /\ h.running /\ ~h.paused /\ ~ipTimerDue
  /\ h.phase = Some(2) /\ h._start = Some(-TickPeriod) /\ armed(h) = 1

\* C15 (as claimed): in every state in which the handle is paused (pause()
\* was called during a run), stop() invokes end with the timestamp of the
\* first start, halts the ticking and resets the run state (paused and
\* running false, tripNr 0), as stop() on a running handle does.
C15_StopWhilePaused ==
  (handle # None /\ h.paused /\ h._firstStart # None /\ ~ipTimerDue) =>
    /\ stop(h).end = Some(h._firstStart)
    /\ ~stop(h).instance.paused /\ ~stop(h).instance.running
    /\ stop(h).instance.tripNr = 0 /\ stop(h).instance.interval = None

\* C16 (as claimed): stop() on a running handle invokes end once with the
\* timestamp of the first start, leaves no interval timer armed, and leaves
\* the handle as if it was never started: not running, not paused, tripNr 0,
\* no timestamps, from and to the endpoints it was created with and the
\* phase OUTBOUND; also during the RETURN leg of a roundtrip.
C16_StopResets ==
  [][(IP_stop /\ h.running) =>
       /\ out'.end = Some(h._firstStart)
       /\ armed(h') = 0
       /\ ~h'.running /\ ~h'.paused /\ h'.tripNr = 0
       /\ h'._start = None /\ h'.end = None /\ h'._firstStart = None
       /\ h'.from = run.from /\ h'.to = run.to /\ h'.phase # Some(2)]_vars

\* C17 (as claimed): running and paused are never both true.
C17_RunningXorPaused ==
  handle # None => ~(h.running /\ h.paused)


\* the fields pause() must leave for resume(): the fields of the handle that
\* are no timestamps, and the timestamp of the first start
frame(instance) ==
  <<instance.from, instance.to, instance.phase, instance.tripNr, instance.curr>>

pausedAtRest == handle # None /\ h.paused /\ ~h.running /\ h._firstStart # None

\* C18, callbacks and frame: a step taken while the handle is paused, other
\* than resume(), invokes no each, update or end callback and leaves from, to,
\* phase, tripNr, curr and the time of the first start as they were at pause.
C18_PausedStep ==
  [][(pausedAtRest /\ ~IP_resume) =>
       /\ out' = NoCalls
       /\ frame(h') = frame(h)
       /\ h'._firstStart = (IF AdvanceIp THEN age(h._firstStart) ELSE h._firstStart)
       /\ h'._ts = h._ts /\ h'.paused]_vars

\* C18, halted: the tick that finds the handle paused leaves no interval
\* timer of the handle armed.
C18_TickHalts ==
  [][(pausedAtRest /\ IP_Interval) => armed(h') = 0]_vars

\* C18 (as claimed): after pause() on a running handle and until resume(), no
\* callback is invoked, the periodic tick is halted, from, to, phase, tripNr,
\* curr and the first start keep their values, and a second pause() changes
\* nothing: the captured elapsed time is not overwritten.
C18_PauseFreezes ==
  /\ [](pausedAtRest => pause(h, getTs) = h)
  /\ C18_PausedStep
  /\ C18_TickHalts


\* the time the current leg has left
remaining(instance) == num(instance.end) - getTs

\* C19, capture: pause() on a running handle captures the elapsed time e of
\* the leg, the duration less the time the leg has left, and e stays as it
\* is for as long as the handle is paused.
C19_PauseCaptures ==
  [][/\ (IP_pause /\ h.running /\ ~h.paused) =>
          /\ h'._ts = Some(getTs - num(h._start))
          /\ h.options.duration - The(h'._ts) = remaining(h)
     /\ (handle # None /\ h.paused /\ h'.paused) => h'._ts = h._ts]_vars

\* C19, resume: resume() at time t on a paused handle sets _start to t - e
\* and end to t - e + duration, so the leg has the time left it had at
\* pause; the handle runs, is not paused, ticks again, and keeps from, to,
\* phase, tripNr and curr.
C19_ResumeStep ==
  [][(IP_resume /\ h.paused) =>
       /\ h'._start = Some(getTs - The(h._ts))
       /\ h'.end = Some(getTs - The(h._ts) + h.options.duration)
       /\ remaining(h') = h.options.duration - The(h._ts)
       /\ h'.running /\ ~h'.paused /\ h'.interval = Some(TickPeriod)
       /\ frame(h') = frame(h)]_vars

\* C19: resume() continues the leg where pause() left it, however long the
\* pause lasted; resume() on a handle that is not paused changes nothing and
\* arms no timer.
C19_ResumeContinues ==
  /\ []((handle # None /\ ~h.paused) => resume(h, getTs) = h)
  /\ C19_PauseCaptures
  /\ C19_ResumeStep

\* resume() has just continued, after a pause of three tick periods or more,
\* a single trip that was paused halfway
C19_Witness ==
  /\ handle # None /\ h.running /\ ~h.paused /\ h.leaked = <<>>
  /\ h.interval = Some(TickPeriod)
  /\ ~h.options.roundtrip /\ h.wantedTrips = 1 /\ h.tripNr = 0
  /\ h._ts = None
  /\ h._start = Some(-TickPeriod) /\ h.end = Some(TickPeriod)
  /\ num(h._firstStart) <= -4 * TickPeriod
  /\ out = NoCalls


registered == "sslider" \in objects

\* the slider's index, offset, navigation lock and auto cycle
navState == <<sslider, timeouts, ips>>

\* C20, registry: userNav() and userNav(true) leave the slider registered,
\* userNav(false) leaves it deregistered, and neither touches the slider.
C20_UserNavStep ==
  [][\A args \in UserNavArgs :
       API_userNav(args) =>
         /\ objects' = (IF args = <<FALSE>> THEN {} ELSE {"sslider"})
         /\ UNCHANGED navState]_vars

\* C20, inputs: an arrow key or a click on the legend, arriving while the
\* slider is deregistered, changes nothing of it.
C20_DeregisteredStep ==
  [][(~registered /\ ((\E k \in KeyCodes : KeyUp(k)) \/ (\E idx \in 0..maxIdx : Click(idx))))
       => UNCHANGED <<navState, objects>>]_vars

\* C20: userNav(enable) registers (enable true or omitted) or deregisters
\* (enable false) the slider; both are idempotent: registering a registered
\* slider or deregistering a deregistered one leaves the registry as it is.
\* While the slider is deregistered no arrow key and no legend click changes
\* its currentIdx, offset, navigation lock or auto cycle.
C20_UserNav ==
  /\ [](/\ put(put(objects)) = put(objects)
        /\ remove(remove(objects)) = remove(objects)
        /\ registered => put(objects) = objects
        /\ ~registered => remove(objects) = objects
        /\ ~registered =>
             /\ \A k \in KeyCodes : keyup(World, k) = World
             /\ \A idx \in 0..maxIdx : click(World, idx) = World)
  /\ C20_UserNavStep
  /\ C20_DeregisteredStep

\* a slider that was registered when it was created is deregistered; it is
\* away from the first frame with its auto cycle pending and no navigation
\* lock, so that an arrow key would move it were it registered
C20_Witness ==
  /\ ~registered /\ sslider.options.userNav /\ hist = "other"
  /\ ~timerDue /\ ~userNavActive /\ pending("navUnlock") = {}
  /\ maxIdx >= 1 /\ currentIdx = 1 /\ pending("autoMove") # {}
  /\ keyup_unregistered(World, 39) # World


\* the direction an auto-cycle step takes from the current frame: autoDir,
\* turned round if the step would leave 0..maxIdx
stepDir == IF inRange(currentIdx + autoDir) THEN autoDir ELSE -autoDir

\* C21 (as claimed): for a slider of two frames or more, every firing of the
\* auto-cycle timer shows currentIdx + autoDirection (after the boundary
\* flip), with currentIdx the index at the moment of firing, so it changes
\* currentIdx by exactly 1 even when showIdx(), prev() or next() changed
\* currentIdx after the timer was armed.
C21_StepFromCurrent ==
  [][\A t \in DOMAIN timeouts :
       (maxIdx >= 1 /\ AutoMoveTimer(t)) => currentIdx' = currentIdx + stepDir]_vars


\* start() was called once and nothing else, roundtrip is on and repeat is
\* false or a number
countedRoundtrips ==
  /\ run.plain /\ run.started /\ h.options.roundtrip
  /\ h.options.repeat.type = "number" \/ ~h.options.repeat.bool

\* the leg under way is a RETURN leg
returning == h.phase = Some(2)

\* C22, legs: the legs of such a run alternate, OUTBOUND first; tripNr is
\* incremented when a RETURN leg finishes and never when an OUTBOUND leg
\* finishes; end is invoked when the RETURN leg of the last trip finishes.
C22_LegStep ==
  [][(countedRoundtrips /\ run'.plain /\ run'.legs = run.legs + 1) =>
       /\ returning <=> run'.legs % 2 = 0
       /\ h'.tripNr = (IF returning THEN h.tripNr + 1 ELSE h.tripNr)
       /\ out'.end # None <=> run'.legs = 2 * tripsAsked
       /\ out'.end = None => (h'.running /\ h'.phase = (IF returning THEN Some(1) ELSE Some(2)))]_vars

\* C22: with roundtrip=true and repeat=N (repeat=false counts as N = 0) the
\* RETURN leg does not consume a trip: the run makes exactly 2*(N+1) legs,
\* N+1 OUTBOUND alternating with N+1 RETURN, before end is invoked, once.
C22_RoundtripLegs ==
  /\ [](countedRoundtrips =>
          /\ run.legs <= 2 * tripsAsked /\ run.ends <= 1
          /\ run.ends = 1 <=> run.legs = 2 * tripsAsked
          /\ run.ends = 0 => h.tripNr = run.legs \div 2)
  /\ C22_LegStep

\* roundtrip with repeat: 1 has made its four legs and invoked end
C22_Witness ==
  /\ countedRoundtrips /\ h.options.repeat.num = 1
  /\ run.legs = 4 /\ run.ends = 1 /\ ~h.running /\ h.tripNr = 2


\* a call of start() that begins a run: the handle neither runs nor is paused
beginsRun == IP_start /\ ~h.running /\ ~h.paused

\* C23, set once: the start() that begins a run sets _firstStart to its
\* time; later steps of the run (the restarts of legs and trips, pause(),
\* resume(), start() again) leave it as it is, the passing of time moves it
\* one period back.
C23_SetOnce ==
  [][/\ beginsRun => h'._firstStart = Some(getTs)
     /\ (h._firstStart # None /\ (IP_Interval \/ IP_pause \/ IP_resume \/ IP_start)
           /\ ~beginsRun)
          => h'._firstStart = h._firstStart
     /\ AdvanceIp => h'._firstStart = age(h._firstStart)]_vars

\* C23, argument of end: whenever end is invoked, by the last tick of the
\* run or by stop(), its argument is the _firstStart of the run.
C23_EndArgument ==
  [][out'.end # None => out'.end = Some(h._firstStart)]_vars

\* C23 (as claimed): within one run _firstStart is set by the first start()
\* and changed neither by the restarts of later legs and trips nor by
\* pause()/resume(); end is invoked with that timestamp, not with the start
\* time of the last leg.
C23_FirstStart ==
  /\ C23_SetOnce
  /\ C23_EndArgument


\* a tick that is executed while the handle is not paused
liveTick == IP_Interval /\ ~h.paused

\* C24, tick: a tick executed while not paused invokes each (if configured)
\* once, with the tick's value, and update (if configured) exactly if that
\* value differs from the value update was invoked with last.
C24_TickCallbacks ==
  [][liveTick =>
       LET value == workValue(h, getTs)
       IN  /\ out'.each = (IF h.options.each THEN Some(value) ELSE None)
           /\ out'.update = (IF h.options.update /\ h.curr # Some(value)
                               THEN Some(value) ELSE None)
           /\ out'.update # None => h'.curr = out'.update
           /\ out'.update = None => h'.curr = h.curr]_vars

\* C24, previous value: curr is the value of the previous update invocation
\* of the run: nothing when a run begins, and the value update received
\* last in a run that was started once and is left alone.
C24_PreviousOfRun ==
  /\ []((handle # None /\ run.plain /\ run.started) => h.curr = run.lastUpd)
  /\ [][beginsRun => h'.curr = None]_vars

\* C24 (as claimed): on every tick executed while not paused, each is
\* invoked once with the tick's value and update exactly if that value
\* differs from the value of the previous update invocation of the run, so
\* no two consecutive update invocations of a run carry the same value, also
\* across leg and trip boundaries.
C24_UpdateOnChange ==
  /\ C24_TickCallbacks
  /\ C24_PreviousOfRun
  /\ [][(run.plain /\ run'.plain /\ out'.update # None) => out'.update # run.lastUpd]_vars


\* C25 (as claimed): with duration <= 0 no tick divides by zero or yields an
\* undefined position: every tick of such a run, a tick at now = _start =
\* end included, uses pos = 1 and emits the value `to`, and the trip
\* finishes on the first tick.
C25_NoDurationNoDivision ==
  [][(WorkNow /\ h.options.duration <= 0) =>
       /\ workPos(h, getTs) = 12
       /\ out'.each = Some(h.to) /\ out'.update # Some(NaN)
       /\ finishes(h, getTs)]_vars


\* the fields that decide how a run goes on from start()
course(instance) ==
  <<instance.tripNr, instance.wantedTrips, instance.from, instance.to,
    instance.phase, instance._firstStart>>

\* C26 (as claimed): when a run completes on its own (the tick that invokes
\* end), its fields are reset as by stop(): tripNr = 0, _firstStart cleared,
\* from/to the configured endpoints and the phase OUTBOUND; so start() on a
\* completed handle sets out on the same course as start() on a handle that
\* was just created with the same endpoints and options.
C26_CompletionResets ==
  /\ [][(IP_Interval /\ run.plain /\ out'.end # None) =>
          /\ h'.tripNr = 0 /\ h'._firstStart = None
          /\ h'.from = run.from /\ h'.to = run.to /\ h'.phase # Some(2)]_vars
  /\ []((handle # None /\ run.plain /\ run.ends = 1 /\ ~ipTimerDue) =>
          course(start(h, getTs)) = course(start(Ip(run.from, run.to, h.options), getTs)))


\* C27 (as claimed): under any sequence of start(), pause(), resume() and
\* stop() interleaved with ticks, at most one interval timer of the handle is
\* armed, and it is the one instance.interval holds, so that it can be
\* cleared: pause() followed by resume() or start() before the next tick
\* leaves no second timer ticking; and a tick invokes end only for a run
\* that was running, so not twice for a completed run.
C27_OneTimer ==
  /\ [](handle # None => (armed(h) <= 1 /\ h.leaked = <<>>))
  /\ [][(IP_Interval /\ out'.end # None) => h.running]_vars


\* what the tick that is due does when its callback `where` calls stop()
stoppedTick(where) ==
  workStopping(IF h.interval = Some(0) THEN [h EXCEPT !.interval = Some(TickPeriod)] ELSE h,
               getTs, where)

\* the callback `where` is invoked by the tick that is due
invoked(where) ==
  IF where = "each" THEN stoppedTick(where).each # None
  ELSE stoppedTick(where).update # None

\* C28 (as claimed): when the each or the update callback of a tick of a
\* running handle calls stop(), the run ends there: the tick invokes end
\* exactly once and starts no other leg or trip, and after it the handle is
\* not running and no timer is armed; for every repeat and roundtrip option.
C28_StopInCallback ==
  \A where \in Callbacks :
    (handle # None /\ ipTimerDue /\ h.running /\ h.leaked = <<>> /\ invoked(where)) =>
      /\ stoppedTick(where).endCalls = 1
      /\ ~stoppedTick(where).instance.running
      /\ armed(stoppedTick(where).instance) = 0
      /\ stoppedTick(where).instance.tripNr = 0

====
